---- MODULE Spec2Model ----
(***************************************************************************)
(* Timer engine of the pomodoro app (frontend/src-tauri/src/timer.rs).     *)
(*                                                                         *)
(* Specifications over one translation of the code:                        *)
(*   Spec         the engine state under any sequence of ticks and         *)
(*                commands, each operation applied as its critical         *)
(*                section (the order the state mutex imposes);             *)
(*   SpecCycle    the same, for an engine that is configured at most once, *)
(*                started once and then driven by ticks alone;             *)
(*   SpecFixedSettings  the same, for an engine whose settings are fixed   *)
(*                before the first session, under ticks and the Pomodoro   *)
(*                commands;                                                *)
(*   SpecPomodoro the same, under ticks and every Pomodoro command, the    *)
(*                settings taking minute values of 10 and 30 as well;      *)
(*   SpecCountdown  the same, under ticks and the countdown commands,      *)
(*                long enough for a one-minute countdown to run out;       *)
(*   SpecTimers   the same, under ticks, the commands of both timers and   *)
(*                set_focus_sound;                                         *)
(*   SpecOverflow the same, with minute values whose product with 60 does  *)
(*                not fit 32 bits;                                         *)
(*   SpecSinks    the clock thread step by step, with a notifier and       *)
(*                presentation sinks that may fail, next to commands       *)
(*                applied as their critical sections;                      *)
(*   SpecThreads  the clock thread, the caller threads, the state mutex    *)
(*                and the snapshot path, step by step.                     *)
(***************************************************************************)
EXTENDS Integers, Sequences, FiniteSets, TLC

\* ------------------------------------------------------------------ bounds
MaxTicks == 7
MaxCmds == 3
MaxClockTicks == 2
MaxCycleTicks == 7840
MaxCountdownTicks == 61
NumCallers == 2

\* ------------------------------------------------------- program constants
AUTO_START_DELAY_SECONDS == 5
\* u32: 2^32 = 60 * U32DivSixty + U32ModSixty
U32DivSixty == 71582788
U32ModSixty == 16

\* ---------------------------------------------------------------- helpers
None == "none"
PomodoroMode == {"work", "short_break", "long_break"}
FocusSound == {"off", "white", "rain", "brown"}

\* u32 arithmetic as the code performs it
saturating_sub(a, b) == IF a > b THEN a - b ELSE 0
\* m * 60 modulo 2^32, computed inside the checker's 32-bit integers
\* (m = a * U32DivSixty + b gives m * 60 = b * 60 - a * U32ModSixty mod 2^32);
\* the inputs of Spec stay below the wrap-around, where it is m * 60.
Mul60(m) ==
    LET a == m \div U32DivSixty
        b == m % U32DivSixty
    IN  b * 60 - a * U32ModSixty
\* += 1 on a session counter (the counters stay far below 2^32 here)
AddOne(n) == n + 1

VARIABLES
    pomodoro,           \* TimerState.pomodoro
    countdown,          \* TimerState.countdown
    focus_sound,        \* TimerState.focus_sound
    last_op,            \* the operation applied last (history)
    notify_event,       \* session-completion event sent by the last operation
    nticks,             \* ticks applied so far
    ncmds,              \* commands applied so far
    pc,                 \* position of every thread
    call,               \* the command a caller thread is executing
    lock_owner,         \* holder of the state mutex, or None
    poisoned,           \* the mutex was poisoned by a panicking holder
    completed_session,  \* tick's local completed_session
    local_snapshot,     \* the TimerSnapshot a thread has copied
    delivered,          \* the snapshot a thread handed to its observers last
    log,                \* operations in the order their mutations were applied
    sinks               \* what the notifier and the sinks answered to the last tick

engine == <<pomodoro, countdown, focus_sound>>
serial == <<last_op, notify_event, nticks, ncmds>>
threads == <<pc, call, lock_owner, poisoned, completed_session,
             local_snapshot, delivered, log, sinks>>
vars == <<pomodoro, countdown, focus_sound, last_op, notify_event, nticks,
          ncmds, pc, call, lock_owner, poisoned, completed_session,
          local_snapshot, delivered, log, sinks>>

\* ------------------------------------------------------------ construction
DefaultSettings ==
    [work_minutes |-> 25, short_break_minutes |-> 5, long_break_minutes |-> 15,
     sessions_before_long_break |-> 4, auto_long_break |-> TRUE,
     pause_music_on_break |-> FALSE]

NewPomodoro ==
    [mode |-> "work", running |-> FALSE,
     remaining_seconds |-> Mul60(DefaultSettings.work_minutes),
     total_seconds |-> Mul60(DefaultSettings.work_minutes),
     awaiting_next_session |-> FALSE, auto_start_remaining |-> 0,
     cycle_work_sessions |-> 0, total_work_sessions |-> 0,
     total_sessions_completed |-> 0, settings |-> DefaultSettings]

NewCountdown ==
    [duration_minutes |-> 25, remaining_seconds |-> 25 * 60, running |-> FALSE]

\* ------------------------------------------------------------------ inputs
\* minutes passed to set_countdown_duration
Minutes == {0, 1}

Settings(w, s, l, n, auto, music) ==
    [work_minutes |-> w, short_break_minutes |-> s, long_break_minutes |-> l,
     sessions_before_long_break |-> n, auto_long_break |-> auto,
     pause_music_on_break |-> music]

\* payloads of update_settings: zero and nonzero durations, a work duration
\* below and above the break durations, thresholds 0, 1 and 2, both flags
SettingsInputs ==
    { Settings(0, 0, 0, 1, TRUE, TRUE),
      Settings(0, 1, 0, 0, TRUE, FALSE),
      Settings(0, 0, 1, 1, FALSE, FALSE),
      Settings(0, 1, 1, 2, TRUE, FALSE),
      Settings(1, 0, 0, 2, TRUE, TRUE),
      Settings(1, 1, 0, 1, FALSE, FALSE) }

\* ------------------------------------------------- the code's computations
duration_for_mode(mode, settings) ==
    CASE mode = "work" -> settings.work_minutes
      [] mode = "short_break" -> settings.short_break_minutes
      [] mode = "long_break" -> settings.long_break_minutes

\* a decrement without the guard against 0
tick_decrement_unguarded(p) == p.remaining_seconds - 1

\* tick, lines 189-232: the Pomodoro advance
tick_decrement(p) ==
    IF p.remaining_seconds > 0 THEN saturating_sub(p.remaining_seconds, 1)
    ELSE p.remaining_seconds

tick_completes(p) == p.running /\ tick_decrement(p) = 0

\* a completion whose long break clears total_work_sessions with the cycle
tick_complete_session_clears_work_total(p) ==
    LET counted ==
            IF p.mode = "work"
            THEN [p EXCEPT !.total_work_sessions = AddOne(@),
                           !.cycle_work_sessions = AddOne(@)]
            ELSE IF p.mode = "long_break"
            THEN [p EXCEPT !.cycle_work_sessions = 0,
                           !.total_work_sessions = 0]
            ELSE p
        should_long_break ==
            counted.settings.auto_long_break
            /\ counted.cycle_work_sessions
                 >= counted.settings.sessions_before_long_break
        next_mode ==
            IF p.mode = "work"
            THEN (IF should_long_break THEN "long_break" ELSE "short_break")
            ELSE "work"
        total == Mul60(duration_for_mode(next_mode, p.settings))
    IN  [counted EXCEPT !.running = FALSE,
                        !.awaiting_next_session = TRUE,
                        !.auto_start_remaining = AUTO_START_DELAY_SECONDS,
                        !.total_sessions_completed = AddOne(@),
                        !.mode = next_mode,
                        !.total_seconds = total,
                        !.remaining_seconds = total]

\* a completion that leaves the session running and counts no session
tick_complete_session_keeps_running(p) ==
    LET counted ==
            IF p.mode = "work"
            THEN [p EXCEPT !.total_work_sessions = AddOne(@),
                           !.cycle_work_sessions = AddOne(@)]
            ELSE IF p.mode = "long_break"
            THEN [p EXCEPT !.cycle_work_sessions = 0]
            ELSE p
        should_long_break ==
            counted.settings.auto_long_break
            /\ counted.cycle_work_sessions
                 >= counted.settings.sessions_before_long_break
        next_mode ==
            IF p.mode = "work"
            THEN (IF should_long_break THEN "long_break" ELSE "short_break")
            ELSE "work"
        total == Mul60(duration_for_mode(next_mode, p.settings))
    IN  [counted EXCEPT !.awaiting_next_session = TRUE,
                        !.auto_start_remaining = AUTO_START_DELAY_SECONDS,
                        !.mode = next_mode,
                        !.total_seconds = total,
                        !.remaining_seconds = total]

\* a completion that decides the long break on the cycle count as it was
\* before the increment
tick_complete_session_compares_first(p) ==
    LET counted ==
            IF p.mode = "work"
            THEN [p EXCEPT !.total_work_sessions = AddOne(@),
                           !.cycle_work_sessions = AddOne(@)]
            ELSE IF p.mode = "long_break"
            THEN [p EXCEPT !.cycle_work_sessions = 0]
            ELSE p
        should_long_break ==
            p.settings.auto_long_break
            /\ p.cycle_work_sessions >= p.settings.sessions_before_long_break
        next_mode ==
            IF p.mode = "work"
            THEN (IF should_long_break THEN "long_break" ELSE "short_break")
            ELSE "work"
        total == Mul60(duration_for_mode(next_mode, p.settings))
    IN  [counted EXCEPT !.running = FALSE,
                        !.awaiting_next_session = TRUE,
                        !.auto_start_remaining = AUTO_START_DELAY_SECONDS,
                        !.total_sessions_completed = AddOne(@),
                        !.mode = next_mode,
                        !.total_seconds = total,
                        !.remaining_seconds = total]

\* a completion whose long break leaves cycle_work_sessions as it was
tick_complete_session_keeps_cycle(p) ==
    LET counted ==
            IF p.mode = "work"
            THEN [p EXCEPT !.total_work_sessions = AddOne(@),
                           !.cycle_work_sessions = AddOne(@)]
            ELSE p
        should_long_break ==
            counted.settings.auto_long_break
            /\ counted.cycle_work_sessions
                 >= counted.settings.sessions_before_long_break
        next_mode ==
            IF p.mode = "work"
            THEN (IF should_long_break THEN "long_break" ELSE "short_break")
            ELSE "work"
        total == Mul60(duration_for_mode(next_mode, p.settings))
    IN  [counted EXCEPT !.running = FALSE,
                        !.awaiting_next_session = TRUE,
                        !.auto_start_remaining = AUTO_START_DELAY_SECONDS,
                        !.total_sessions_completed = AddOne(@),
                        !.mode = next_mode,
                        !.total_seconds = total,
                        !.remaining_seconds = total]

tick_complete_session(p) ==
    LET counted ==
            IF p.mode = "work"
            THEN [p EXCEPT !.total_work_sessions = AddOne(@),
                           !.cycle_work_sessions = AddOne(@)]
            ELSE IF p.mode = "long_break"
            THEN [p EXCEPT !.cycle_work_sessions = 0]
            ELSE p
        should_long_break ==
            counted.settings.auto_long_break
            /\ counted.cycle_work_sessions
                 >= counted.settings.sessions_before_long_break
        next_mode ==
            IF p.mode = "work"
            THEN (IF should_long_break THEN "long_break" ELSE "short_break")
            ELSE "work"
        total == Mul60(duration_for_mode(next_mode, p.settings))
    IN  [counted EXCEPT !.running = FALSE,
                        !.awaiting_next_session = TRUE,
                        !.auto_start_remaining = AUTO_START_DELAY_SECONDS,
                        !.total_sessions_completed = AddOne(@),
                        !.mode = next_mode,
                        !.total_seconds = total,
                        !.remaining_seconds = total]

\* an auto-start that sets running and leaves awaiting_next_session set
tick_auto_start_keeps_awaiting(p) ==
    LET left == saturating_sub(p.auto_start_remaining, 1)
    IN  IF left = 0
        THEN [p EXCEPT !.auto_start_remaining = left, !.running = TRUE]
        ELSE [p EXCEPT !.auto_start_remaining = left]

\* an auto-start that fires one tick early
tick_auto_start_early(p) ==
    LET left == saturating_sub(p.auto_start_remaining, 1)
    IN  IF left <= 1
        THEN [p EXCEPT !.auto_start_remaining = 0,
                       !.awaiting_next_session = FALSE,
                       !.running = TRUE]
        ELSE [p EXCEPT !.auto_start_remaining = left]

tick_auto_start(p) ==
    LET left == IF p.auto_start_remaining > 0
                THEN saturating_sub(p.auto_start_remaining, 1)
                ELSE p.auto_start_remaining
    IN  IF left = 0
        THEN [p EXCEPT !.auto_start_remaining = left,
                       !.awaiting_next_session = FALSE,
                       !.running = TRUE]
        ELSE [p EXCEPT !.auto_start_remaining = left]

tick_pomodoro(p) ==
    IF p.running
    THEN (IF tick_completes(p)
          THEN tick_complete_session(p)
          ELSE [p EXCEPT !.remaining_seconds = tick_decrement(p)])
    ELSE IF p.awaiting_next_session
    THEN tick_auto_start(p)
    ELSE p

\* a countdown that stays running at 0
tick_countdown_keeps_running(c) ==
    IF c.running
    THEN [c EXCEPT !.remaining_seconds = saturating_sub(@, 1)]
    ELSE c

\* tick, lines 234-240: the countdown advance
tick_countdown(c) ==
    IF c.running
    THEN LET left == saturating_sub(c.remaining_seconds, 1)
         IN  [c EXCEPT !.remaining_seconds = left,
                       !.running = (left # 0)]
    ELSE c

\* a label that calls every completed session a work session
mode_label_always_work(completed) ==
    IF completed = None THEN None ELSE "work"

\* tick, lines 243-249: the label of the completed session
mode_label(completed) ==
    IF completed = None THEN None
    ELSE IF completed = "work" THEN "work" ELSE "break"

\* the mutations of the commands, lines 262-373
\* an update_settings that only clamps, also when the Pomodoro is idle
update_settings_keeps_progress(p, settings) ==
    LET total_seconds == Mul60(duration_for_mode(p.mode, settings))
    IN  [p EXCEPT !.settings = settings,
                  !.total_seconds = total_seconds,
                  !.remaining_seconds =
                      IF @ > total_seconds THEN total_seconds ELSE @]

\* an update_settings that reloads remaining_seconds in every state
update_settings_always_reloads(p, settings) ==
    LET total_seconds == Mul60(duration_for_mode(p.mode, settings))
    IN  [p EXCEPT !.settings = settings,
                  !.total_seconds = total_seconds,
                  !.remaining_seconds = total_seconds]

update_settings_mut(p, settings) ==
    LET total_seconds == Mul60(duration_for_mode(p.mode, settings))
    IN  [p EXCEPT !.settings = settings,
                  !.total_seconds = total_seconds,
                  !.remaining_seconds =
                      IF ~p.running /\ ~p.awaiting_next_session
                      THEN total_seconds
                      ELSE IF @ > total_seconds THEN total_seconds ELSE @]

\* a start_pomodoro that resumes a Work session and reloads after a break
start_pomodoro_reloads_after_break(p) ==
    LET total == Mul60(duration_for_mode("work", p.settings))
    IN  [p EXCEPT !.mode = "work",
                  !.total_seconds = total,
                  !.remaining_seconds =
                      IF @ = 0 \/ p.mode # "work" THEN total ELSE @,
                  !.awaiting_next_session = FALSE,
                  !.auto_start_remaining = 0,
                  !.running = TRUE]

\* a start_pomodoro that always reloads remaining_seconds
start_pomodoro_always_reloads(p) ==
    LET total == Mul60(duration_for_mode("work", p.settings))
    IN  [p EXCEPT !.mode = "work",
                  !.total_seconds = total,
                  !.remaining_seconds = total,
                  !.awaiting_next_session = FALSE,
                  !.auto_start_remaining = 0,
                  !.running = TRUE]

start_pomodoro_mut(p) ==
    LET total == Mul60(duration_for_mode("work", p.settings))
    IN  [p EXCEPT !.mode = "work",
                  !.total_seconds = total,
                  !.remaining_seconds = IF @ = 0 THEN total ELSE @,
                  !.awaiting_next_session = FALSE,
                  !.auto_start_remaining = 0,
                  !.running = TRUE]

\* a start_break that keeps the total_seconds of the previous mode
start_break_stale_total(p) ==
    LET total == Mul60(duration_for_mode("short_break", p.settings))
    IN  [p EXCEPT !.mode = "short_break",
                  !.remaining_seconds = total,
                  !.awaiting_next_session = FALSE,
                  !.auto_start_remaining = 0,
                  !.running = TRUE]

\* a start_break that takes the long break when one is due or under way
start_break_may_be_long(p) ==
    LET mode == IF p.mode = "long_break" THEN "long_break" ELSE "short_break"
        total == Mul60(duration_for_mode(mode, p.settings))
    IN  [p EXCEPT !.mode = mode,
                  !.total_seconds = total,
                  !.remaining_seconds = total,
                  !.awaiting_next_session = FALSE,
                  !.auto_start_remaining = 0,
                  !.running = TRUE]

start_break_mut(p) ==
    LET total == Mul60(duration_for_mode("short_break", p.settings))
    IN  [p EXCEPT !.mode = "short_break",
                  !.total_seconds = total,
                  !.remaining_seconds = total,
                  !.awaiting_next_session = FALSE,
                  !.auto_start_remaining = 0,
                  !.running = TRUE]

\* a skip_break that closes the cycle when it leaves a long break
skip_break_closes_cycle(p) ==
    LET total == Mul60(duration_for_mode("work", p.settings))
    IN  [p EXCEPT !.mode = "work",
                  !.total_seconds = total,
                  !.remaining_seconds = total,
                  !.awaiting_next_session = FALSE,
                  !.auto_start_remaining = 0,
                  !.running = TRUE,
                  !.cycle_work_sessions =
                      IF p.mode = "long_break" THEN 0 ELSE @]

\* a skip_break that does nothing during a Work session
skip_break_only_in_break(p) ==
    IF p.mode = "work" THEN p
    ELSE LET total == Mul60(duration_for_mode("work", p.settings))
         IN  [p EXCEPT !.mode = "work",
                       !.total_seconds = total,
                       !.remaining_seconds = total,
                       !.awaiting_next_session = FALSE,
                       !.auto_start_remaining = 0,
                       !.running = TRUE]

skip_break_mut(p) ==
    LET total == Mul60(duration_for_mode("work", p.settings))
    IN  [p EXCEPT !.mode = "work",
                  !.total_seconds = total,
                  !.remaining_seconds = total,
                  !.awaiting_next_session = FALSE,
                  !.auto_start_remaining = 0,
                  !.running = TRUE]

\* a pause that freezes the auto-start delay instead of clearing it
pause_pomodoro_keeps_delay(p) ==
    [p EXCEPT !.running = FALSE, !.awaiting_next_session = FALSE]

\* a pause_pomodoro that leaves a pending auto-start in place
pause_pomodoro_keeps_awaiting(p) == [p EXCEPT !.running = FALSE]

pause_pomodoro_mut(p) ==
    [p EXCEPT !.running = FALSE,
              !.awaiting_next_session = FALSE,
              !.auto_start_remaining = 0]

\* a reset_pomodoro that goes back to a Work session
reset_pomodoro_to_work(p) ==
    LET total == Mul60(duration_for_mode("work", p.settings))
    IN  [p EXCEPT !.mode = "work",
                  !.running = FALSE,
                  !.awaiting_next_session = FALSE,
                  !.auto_start_remaining = 0,
                  !.total_seconds = total,
                  !.remaining_seconds = total]

reset_pomodoro_mut(p) ==
    LET total == Mul60(duration_for_mode(p.mode, p.settings))
    IN  [p EXCEPT !.running = FALSE,
                  !.awaiting_next_session = FALSE,
                  !.auto_start_remaining = 0,
                  !.total_seconds = total,
                  !.remaining_seconds = total]

\* a start_countdown that always restarts from the full duration
start_countdown_always_reloads(c) ==
    [c EXCEPT !.remaining_seconds = Mul60(c.duration_minutes),
              !.running = TRUE]

start_countdown_mut(c) ==
    [c EXCEPT !.remaining_seconds =
                  IF @ = 0 THEN Mul60(c.duration_minutes) ELSE @,
              !.running = TRUE]

\* a pause_countdown that also rewinds the countdown
pause_countdown_rewinds(c) ==
    [c EXCEPT !.running = FALSE,
              !.remaining_seconds = Mul60(c.duration_minutes)]

pause_countdown_mut(c) == [c EXCEPT !.running = FALSE]

\* a reset_countdown that rewinds a paused countdown and stops a running one
reset_countdown_stops_first(c) ==
    IF c.running THEN [c EXCEPT !.running = FALSE]
    ELSE [c EXCEPT !.remaining_seconds = Mul60(c.duration_minutes)]

reset_countdown_mut(c) ==
    [c EXCEPT !.running = FALSE,
              !.remaining_seconds = Mul60(c.duration_minutes)]

\* a set_countdown_duration that does not reload remaining_seconds
set_countdown_duration_keeps_remaining(c, minutes) ==
    [c EXCEPT !.duration_minutes = minutes, !.running = FALSE]

\* a set_countdown_duration that leaves an active countdown running
set_countdown_duration_keeps_running(c, minutes) ==
    [c EXCEPT !.duration_minutes = minutes,
              !.remaining_seconds = Mul60(minutes)]

set_countdown_duration_mut(c, minutes) ==
    [c EXCEPT !.duration_minutes = minutes,
              !.remaining_seconds = Mul60(minutes),
              !.running = FALSE]

\* -------------------------------------------------------- threads and calls
Clock == 0
Callers == 1 .. NumCallers
Threads == {Clock} \cup Callers
NoOwner == -1

NoCall == [name |-> None, settings |-> DefaultSettings, minutes |-> 0,
           sound |-> "off", applied |-> FALSE]
Call(name) == [NoCall EXCEPT !.name = name]
NoSnapshot ==
    [pomodoro |-> NewPomodoro, countdown |-> NewCountdown,
     focus_sound |-> "off", taken |-> FALSE, torn |-> FALSE,
     after_own |-> FALSE]

InitEngine ==
    /\ pomodoro = NewPomodoro
    /\ countdown = NewCountdown
    /\ focus_sound = "off"

InitSerial ==
    /\ last_op = "new"
    /\ notify_event = None
    /\ nticks = 0
    /\ ncmds = 0

\* no notification sent, no snapshot handed to a sink
NoSinks ==
    [notifier |-> None, window |-> None, status_bar |-> None,
     failed_before |-> {}]

InitThreads ==
    /\ pc = [t \in Threads |-> IF t = Clock THEN "sleep" ELSE "idle"]
    /\ call = [t \in Threads |-> NoCall]
    /\ lock_owner = NoOwner
    /\ poisoned = FALSE
    /\ completed_session = None
    /\ local_snapshot = [t \in Threads |-> NoSnapshot]
    /\ delivered = [t \in Threads |-> NoSnapshot]
    /\ log = <<>>
    /\ sinks = NoSinks

Init == InitEngine /\ InitSerial /\ InitThreads

\* ------------------------------------------- Spec: operations, one by one
Applied(op, event) ==
    /\ last_op' = op
    /\ notify_event' = event
    /\ UNCHANGED threads

Command(op) ==
    /\ ncmds < MaxCmds
    /\ ncmds' = ncmds + 1
    /\ nticks' = nticks
    /\ Applied(op, None)

\* a tick that advances the countdown only while the Pomodoro is not running
Ticked_one_timer ==
    /\ pomodoro' = tick_pomodoro(pomodoro)
    /\ countdown' = IF pomodoro.running THEN countdown
                    ELSE tick_countdown(countdown)
    /\ focus_sound' = focus_sound
    /\ nticks' = nticks + 1
    /\ ncmds' = ncmds
    /\ Applied("tick",
               mode_label(IF tick_completes(pomodoro) THEN pomodoro.mode
                          ELSE None))

\* what one call of tick does to the engine state
Ticked ==
    /\ pomodoro' = tick_pomodoro(pomodoro)
    /\ countdown' = tick_countdown(countdown)
    /\ focus_sound' = focus_sound
    /\ nticks' = nticks + 1
    /\ ncmds' = ncmds
    /\ Applied("tick",
               mode_label(IF tick_completes(pomodoro) THEN pomodoro.mode
                          ELSE None))

tick ==
    /\ nticks < MaxTicks
    /\ Ticked

update_settings ==
    \E settings \in SettingsInputs :
        /\ pomodoro' = update_settings_mut(pomodoro, settings)
        /\ UNCHANGED <<countdown, focus_sound>>
        /\ Command("update_settings")

start_pomodoro ==
    /\ pomodoro' = start_pomodoro_mut(pomodoro)
    /\ UNCHANGED <<countdown, focus_sound>>
    /\ Command("start_pomodoro")

start_break ==
    /\ pomodoro' = start_break_mut(pomodoro)
    /\ UNCHANGED <<countdown, focus_sound>>
    /\ Command("start_break")

skip_break ==
    /\ pomodoro' = skip_break_mut(pomodoro)
    /\ UNCHANGED <<countdown, focus_sound>>
    /\ Command("skip_break")

pause_pomodoro ==
    /\ pomodoro' = pause_pomodoro_mut(pomodoro)
    /\ UNCHANGED <<countdown, focus_sound>>
    /\ Command("pause_pomodoro")

reset_pomodoro ==
    /\ pomodoro' = reset_pomodoro_mut(pomodoro)
    /\ UNCHANGED <<countdown, focus_sound>>
    /\ Command("reset_pomodoro")

start_countdown ==
    /\ countdown' = start_countdown_mut(countdown)
    /\ UNCHANGED <<pomodoro, focus_sound>>
    /\ Command("start_countdown")

pause_countdown ==
    /\ countdown' = pause_countdown_mut(countdown)
    /\ UNCHANGED <<pomodoro, focus_sound>>
    /\ Command("pause_countdown")

reset_countdown ==
    /\ countdown' = reset_countdown_mut(countdown)
    /\ UNCHANGED <<pomodoro, focus_sound>>
    /\ Command("reset_countdown")

set_countdown_duration ==
    \E minutes \in Minutes :
        /\ countdown' = set_countdown_duration_mut(countdown, minutes)
        /\ UNCHANGED <<pomodoro, focus_sound>>
        /\ Command("set_countdown_duration")

\* a set_focus_sound that pauses the countdown when the sound is turned off
set_focus_sound_pauses ==
    \E sound \in FocusSound :
        /\ focus_sound' = sound
        /\ countdown' = IF sound = "off" THEN pause_countdown_mut(countdown)
                        ELSE countdown
        /\ UNCHANGED pomodoro
        /\ Command("set_focus_sound")

set_focus_sound ==
    \E sound \in FocusSound :
        /\ focus_sound' = sound
        /\ UNCHANGED <<pomodoro, countdown>>
        /\ Command("set_focus_sound")

Next ==
    \/ tick
    \/ update_settings
    \/ start_pomodoro
    \/ start_break
    \/ skip_break
    \/ pause_pomodoro
    \/ reset_pomodoro
    \/ start_countdown
    \/ pause_countdown
    \/ reset_countdown
    \/ set_countdown_duration
    \/ set_focus_sound

Spec == Init /\ [][Next]_vars

\* ------------- SpecCycle: one configuration, one start, then only the clock
\* the settings of Spec and one with four zero-minute sessions per cycle
CycleSettings == SettingsInputs \cup {Settings(0, 0, 0, 4, TRUE, FALSE)}

\* update_settings, called on the engine as constructed and not again
update_settings_once ==
    /\ last_op = "new"
    /\ \E settings \in CycleSettings :
           pomodoro' = update_settings_mut(pomodoro, settings)
    /\ UNCHANGED <<countdown, focus_sound>>
    /\ Command("update_settings")

\* the first start_pomodoro
first_start ==
    /\ last_op \in {"new", "update_settings"}
    /\ start_pomodoro

\* the clock thread's tick, once the Pomodoro has been started
cycle_tick ==
    /\ last_op \in {"start_pomodoro", "tick"}
    /\ nticks < MaxCycleTicks
    /\ Ticked

NextCycle == update_settings_once \/ first_start \/ cycle_tick

SpecCycle == Init /\ [][NextCycle]_vars

\* ------ SpecFixedSettings: settings fixed first, then ticks and commands
NextFixedSettings ==
    \/ update_settings_once
    \/ tick
    \/ start_pomodoro
    \/ start_break
    \/ skip_break
    \/ pause_pomodoro
    \/ reset_pomodoro

SpecFixedSettings == Init /\ [][NextFixedSettings]_vars

\* ------------ SpecPomodoro: ticks and the Pomodoro commands, longer sessions
\* the default settings with a shorter and a longer work session
WorkMinutesInputs ==
    { [DefaultSettings EXCEPT !.work_minutes = 10],
      [DefaultSettings EXCEPT !.work_minutes = 30] }

update_settings_work_minutes ==
    \E settings \in WorkMinutesInputs :
        /\ pomodoro' = update_settings_mut(pomodoro, settings)
        /\ UNCHANGED <<countdown, focus_sound>>
        /\ Command("update_settings")

NextPomodoro ==
    \/ tick
    \/ update_settings
    \/ update_settings_work_minutes
    \/ start_pomodoro
    \/ start_break
    \/ skip_break
    \/ pause_pomodoro
    \/ reset_pomodoro

SpecPomodoro == Init /\ [][NextPomodoro]_vars

\* --------------------- SpecCountdown: ticks and the countdown commands
countdown_tick ==
    /\ nticks < MaxCountdownTicks
    /\ Ticked

NextCountdown ==
    \/ countdown_tick
    \/ start_countdown
    \/ pause_countdown
    \/ reset_countdown
    \/ set_countdown_duration

SpecCountdown == Init /\ [][NextCountdown]_vars

\* ------------- SpecTimers: both timers and the focus sound side by side
NextTimers ==
    \/ tick
    \/ update_settings_work_minutes
    \/ start_pomodoro
    \/ start_break
    \/ skip_break
    \/ pause_pomodoro
    \/ reset_pomodoro
    \/ start_countdown
    \/ pause_countdown
    \/ reset_countdown
    \/ set_countdown_duration
    \/ set_focus_sound

SpecTimers == Init /\ [][NextTimers]_vars

\* ------------------------- SpecOverflow: minutes * 60 beyond 32 bits
\* minute values of the u32 payloads: small, the largest whose seconds the
\* checker's integers hold, and two whose product with 60 exceeds 2^32 - 1
U32Minutes == {1, 35791394, 71582789, 143165577}

\* minutes * 60 does not fit a u32
overflows(minutes) == minutes > U32DivSixty

\* the multiplication panicked (a build with overflow checks): the thread
\* unwinds with the guard, the mutex is poisoned and no operation gets the
\* state any more
Faulted == last_op = "arithmetic_fault"

\* set_countdown_duration, lines 360-367, with any u32: on overflow the
\* product wraps, or the multiplication panics after line 363 has stored
\* the minutes
set_countdown_duration_u32 ==
    /\ ~Faulted
    /\ \E minutes \in U32Minutes :
         \/ /\ countdown' = set_countdown_duration_mut(countdown, minutes)
            /\ Command("set_countdown_duration")
         \/ /\ overflows(minutes)
            /\ countdown' = [countdown EXCEPT !.duration_minutes = minutes]
            /\ Command("arithmetic_fault")
    /\ UNCHANGED <<pomodoro, focus_sound>>

\* update_settings, lines 262-273, with any u32 work_minutes: on overflow
\* the product wraps, or the multiplication panics after line 264 has
\* stored the settings
update_settings_u32 ==
    /\ ~Faulted
    /\ \E minutes \in U32Minutes :
         LET settings == [DefaultSettings EXCEPT !.work_minutes = minutes]
         IN  \/ /\ pomodoro' = update_settings_mut(pomodoro, settings)
                /\ Command("update_settings")
             \/ /\ overflows(duration_for_mode(pomodoro.mode, settings))
                /\ pomodoro' = [pomodoro EXCEPT !.settings = settings]
                /\ Command("arithmetic_fault")
    /\ UNCHANGED <<countdown, focus_sound>>

NextOverflow ==
    \/ set_countdown_duration_u32
    \/ update_settings_u32
    \/ ~Faulted /\ tick
    \/ ~Faulted /\ start_pomodoro
    \/ ~Faulted /\ start_countdown

SpecOverflow == Init /\ [][NextOverflow]_vars

\* ------------------------- SpecThreads: the threads, the mutex, the snapshot
\* the calls a caller thread makes: the eleven commands and timer_get_state
CallInputs ==
    {Call(n) : n \in {"start_pomodoro", "start_break", "skip_break",
                      "pause_pomodoro", "reset_pomodoro", "start_countdown",
                      "pause_countdown", "reset_countdown", "timer_get_state"}}
    \cup {[Call("update_settings") EXCEPT !.settings = Settings(0, 1, 0, 0, TRUE, FALSE)]}
    \cup {[Call("set_countdown_duration") EXCEPT !.minutes = 1]}
    \cup {[Call("set_focus_sound") EXCEPT !.sound = "rain"]}

Engine(p, c, f) == [pomodoro |-> p, countdown |-> c, focus_sound |-> f]

\* the mutation of one operation on the whole TimerState
ApplyCall(c, e) ==
    CASE c.name = "tick" ->
            Engine(tick_pomodoro(e.pomodoro), tick_countdown(e.countdown),
                   e.focus_sound)
      [] c.name = "update_settings" ->
            [e EXCEPT !.pomodoro = update_settings_mut(@, c.settings)]
      [] c.name = "start_pomodoro" ->
            [e EXCEPT !.pomodoro = start_pomodoro_mut(@)]
      [] c.name = "start_break" ->
            [e EXCEPT !.pomodoro = start_break_mut(@)]
      [] c.name = "skip_break" ->
            [e EXCEPT !.pomodoro = skip_break_mut(@)]
      [] c.name = "pause_pomodoro" ->
            [e EXCEPT !.pomodoro = pause_pomodoro_mut(@)]
      [] c.name = "reset_pomodoro" ->
            [e EXCEPT !.pomodoro = reset_pomodoro_mut(@)]
      [] c.name = "start_countdown" ->
            [e EXCEPT !.countdown = start_countdown_mut(@)]
      [] c.name = "pause_countdown" ->
            [e EXCEPT !.countdown = pause_countdown_mut(@)]
      [] c.name = "reset_countdown" ->
            [e EXCEPT !.countdown = reset_countdown_mut(@)]
      [] c.name = "set_countdown_duration" ->
            [e EXCEPT !.countdown = set_countdown_duration_mut(@, c.minutes)]
      [] c.name = "set_focus_sound" ->
            [e EXCEPT !.focus_sound = c.sound]

Goto(t, where) == pc' = [pc EXCEPT ![t] = where]
\* where an operation that has returned leaves its thread: the clock thread
\* sleeps until the next tick, a caller thread has made its one call
Resting(t) == IF t = Clock THEN "sleep" ELSE "returned"

\* a lock that lets thread t in whoever holds it
can_lock_unguarded(t) == TRUE

\* Mutex::lock returns to thread t only while no thread holds the mutex
can_lock(t) == lock_owner = NoOwner

\* a presentation sink or an IPC handler calls into the engine
invoke(t, c) ==
    /\ pc[t] = "idle"
    /\ call' = [call EXCEPT ![t] = c]
    /\ Goto(t, IF c.name = "timer_get_state" THEN "snapshot" ELSE "lock")
    /\ UNCHANGED <<engine, serial, lock_owner, poisoned, completed_session,
                   local_snapshot, delivered, log>>
    /\ UNCHANGED sinks

\* the clock thread wakes up after its sleep and calls tick
tick_start ==
    /\ pc[Clock] = "sleep"
    /\ nticks < MaxClockTicks
    /\ call' = [call EXCEPT ![Clock] = Call("tick")]
    /\ completed_session' = None
    /\ Goto(Clock, "lock")
    /\ UNCHANGED <<engine, serial, lock_owner, poisoned, local_snapshot,
                   delivered, log>>
    /\ UNCHANGED sinks

\* self.state.lock().expect(..) at the head of tick and of every command
lock(t) ==
    /\ pc[t] = "lock"
    /\ can_lock(t)
    /\ IF poisoned
       THEN Goto(t, "panicked") /\ UNCHANGED lock_owner
       ELSE Goto(t, "mutate") /\ lock_owner' = t
    /\ UNCHANGED <<engine, serial, call, poisoned, completed_session,
                   local_snapshot, delivered, log>>
    /\ UNCHANGED sinks

\* the body of a command, under the lock
mutate(t) ==
    /\ t \in Callers
    /\ pc[t] = "mutate"
    /\ LET e == ApplyCall(call[t], Engine(pomodoro, countdown, focus_sound))
       IN  /\ pomodoro' = e.pomodoro
           /\ countdown' = e.countdown
           /\ focus_sound' = e.focus_sound
    /\ call' = [call EXCEPT ![t].applied = TRUE]
    /\ log' = Append(log, [call[t] EXCEPT !.applied = FALSE])
    /\ Goto(t, "emit_snapshot")
    /\ UNCHANGED <<serial, lock_owner, poisoned, completed_session,
                   local_snapshot, delivered>>
    /\ UNCHANGED sinks

\* tick, lines 188-232, under the lock
tick_pomodoro_step ==
    /\ pc[Clock] = "mutate"
    /\ completed_session' =
           IF tick_completes(pomodoro) THEN pomodoro.mode ELSE None
    /\ pomodoro' = tick_pomodoro(pomodoro)
    /\ Goto(Clock, "tick_countdown")
    /\ UNCHANGED <<countdown, focus_sound, serial, call, lock_owner, poisoned,
                   local_snapshot, delivered, log>>
    /\ UNCHANGED sinks

\* tick, lines 234-240, under the lock
tick_countdown_step ==
    /\ pc[Clock] = "tick_countdown"
    /\ countdown' = tick_countdown(countdown)
    /\ nticks' = nticks + 1
    /\ call' = [call EXCEPT ![Clock].applied = TRUE]
    /\ log' = Append(log, Call("tick"))
    /\ Goto(Clock, "unlock")
    /\ UNCHANGED <<pomodoro, focus_sound, last_op, notify_event, ncmds,
                   lock_owner, poisoned, completed_session, local_snapshot,
                   delivered>>
    /\ UNCHANGED sinks

\* tick, line 241: the guard goes out of scope at the end of the block
tick_unlock ==
    /\ pc[Clock] = "unlock"
    /\ lock_owner' = NoOwner
    /\ Goto(Clock, "notify")
    /\ UNCHANGED <<engine, serial, call, poisoned, completed_session,
                   local_snapshot, delivered, log>>
    /\ UNCHANGED sinks

\* tick, lines 243-249: the notification of a completed session
tick_notify ==
    /\ pc[Clock] = "notify"
    /\ notify_event' = mode_label(completed_session)
    /\ Goto(Clock, "emit_snapshot")
    /\ UNCHANGED <<engine, last_op, nticks, ncmds, call, lock_owner, poisoned,
                   completed_session, local_snapshot, delivered, log>>
    /\ UNCHANGED sinks

\* self.snapshot(): lock, copy, unlock.  A thread that already holds the
\* mutex never gets it again: std leaves open whether that lock call
\* panics or blocks forever.  A panic unwinds the caller, whose guard is
\* dropped while panicking: the mutex is released and poisoned.
snapshot(t) ==
    /\ pc[t] \in {"snapshot", "emit_snapshot"}
    /\ IF lock_owner = t
       THEN /\ \/ Goto(t, "deadlocked") /\ UNCHANGED <<lock_owner, poisoned>>
               \/ /\ Goto(t, "panicked")
                  /\ lock_owner' = NoOwner
                  /\ poisoned' = TRUE
            /\ UNCHANGED local_snapshot
       ELSE /\ can_lock(t)
            /\ IF poisoned
               THEN Goto(t, "panicked") /\ UNCHANGED local_snapshot
               ELSE /\ Goto(t, "deliver")
                    /\ local_snapshot' =
                         [local_snapshot EXCEPT ![t] =
                            [pomodoro |-> pomodoro, countdown |-> countdown,
                             focus_sound |-> focus_sound, taken |-> TRUE,
                             torn |-> \E u \in Threads \ {t} :
                                          pc[u] = "tick_countdown",
                             after_own |-> call[t].applied]]
            /\ UNCHANGED <<lock_owner, poisoned>>
    /\ UNCHANGED <<engine, serial, call, completed_session, delivered, log>>
    /\ UNCHANGED sinks

\* emit_snapshot, lines 177-181 (the event to the windows, the status bar),
\* or the return of timer_get_state; then the operation returns and a guard
\* still in scope is dropped
deliver(t) ==
    /\ pc[t] = "deliver"
    /\ delivered' = [delivered EXCEPT ![t] = local_snapshot[t]]
    /\ local_snapshot' = [local_snapshot EXCEPT ![t] = NoSnapshot]
    /\ lock_owner' = IF lock_owner = t THEN NoOwner ELSE lock_owner
    /\ Goto(t, Resting(t))
    /\ UNCHANGED <<engine, serial, call, poisoned, completed_session, log>>
    /\ UNCHANGED sinks

Step(t) ==
    \/ lock(t)
    \/ mutate(t)
    \/ snapshot(t)
    \/ deliver(t)
    \/ t = Clock /\ (tick_start \/ tick_pomodoro_step \/ tick_countdown_step
                     \/ tick_unlock \/ tick_notify)

NextThreads ==
    \/ \E t \in Callers, c \in CallInputs : invoke(t, c)
    \/ tick_start
    \/ \E t \in Threads : lock(t)
    \/ \E t \in Callers : mutate(t)
    \/ tick_pomodoro_step
    \/ tick_countdown_step
    \/ tick_unlock
    \/ tick_notify
    \/ \E t \in Threads : snapshot(t)
    \/ \E t \in Threads : deliver(t)

SpecThreads == Init /\ [][NextThreads]_vars

\* ------------- SpecSinks: the clock thread with sinks that may fail
\* the sinks that answered the last tick with an error
Failed(k) ==
    {sink \in {"notifier", "window", "status_bar"} : k[sink] = "failed"}

\* the notifier the engine imports from the crate root (line 8): it shows a
\* desktop notification and answers with a result, Ok or Err
notify_session_complete_for_engine == {"sent", "failed"}

\* tick, lines 243-249: the notifier is called for a completed session and
\* its result is dropped (`let _ =`), whether Ok or Err
sink_notify ==
    /\ pc[Clock] = "notify"
    /\ notify_event' = mode_label(completed_session)
    /\ \E answer \in IF completed_session = None THEN {None}
                      ELSE notify_session_complete_for_engine :
           sinks' = [notifier |-> answer, window |-> None,
                     status_bar |-> None,
                     failed_before |-> sinks.failed_before \cup Failed(sinks)]
    /\ Goto(Clock, "emit_snapshot")
    /\ UNCHANGED <<engine, last_op, nticks, ncmds, call, lock_owner, poisoned,
                   completed_session, local_snapshot, delivered, log>>

\* a fan-out that returns at the first sink that fails
sink_deliver_stops_at_error ==
    /\ pc[Clock] = "deliver"
    /\ delivered' = [delivered EXCEPT ![Clock] = local_snapshot[Clock]]
    /\ local_snapshot' = [local_snapshot EXCEPT ![Clock] = NoSnapshot]
    /\ \E window \in {"emitted", "failed"} :
       \E status_bar \in {"updated", "failed"} :
           sinks' = [sinks EXCEPT !.window = window,
                                  !.status_bar = IF window = "failed"
                                                 THEN None ELSE status_bar]
    /\ Goto(Clock, Resting(Clock))
    /\ UNCHANGED <<engine, serial, call, lock_owner, poisoned,
                   completed_session, log>>

\* emit_snapshot, lines 177-181: the event to the windows, its result
\* dropped (`let _ =`), then the status bar, whose result is dropped too
sink_deliver ==
    /\ pc[Clock] = "deliver"
    /\ delivered' = [delivered EXCEPT ![Clock] = local_snapshot[Clock]]
    /\ local_snapshot' = [local_snapshot EXCEPT ![Clock] = NoSnapshot]
    /\ \E window \in {"emitted", "failed"} :
       \E status_bar \in {"updated", "failed"} :
           sinks' = [sinks EXCEPT !.window = window,
                                  !.status_bar = status_bar]
    /\ Goto(Clock, Resting(Clock))
    /\ UNCHANGED <<engine, serial, call, lock_owner, poisoned,
                   completed_session, log>>

\* a command's critical section, entered while the mutex is free
unlocked(command) == lock_owner = NoOwner /\ command

NextSinks ==
    \/ unlocked(update_settings)
    \/ unlocked(start_pomodoro)
    \/ unlocked(pause_pomodoro)
    \/ tick_start
    \/ lock(Clock)
    \/ tick_pomodoro_step
    \/ tick_countdown_step
    \/ tick_unlock
    \/ sink_notify
    \/ snapshot(Clock)
    \/ sink_deliver

SpecSinks == Init /\ [][NextSinks]_vars

\* every thread that can run is eventually run, and a thread that can take
\* the mutex again and again eventually takes it
SpecThreadsFair == SpecThreads /\ \A t \in Threads : SF_vars(Step(t))

\* ------------------------------------------------ claims on the threads
IsCommand(c) == c.name \notin {None, "tick", "timer_get_state"}
Stopped == {"returned", "panicked", "deadlocked"}

\* the thread waits for a mutex whose holder will never release it
BlockedForever(t) ==
    /\ pc[t] \in {"lock", "snapshot", "emit_snapshot"}
    /\ lock_owner # NoOwner
    /\ pc[lock_owner] = "deadlocked"

\* no operation is in progress that can still take a step
Final ==
    \A t \in Threads :
        pc[t] \in Stopped \cup {"idle", "sleep"} \/ BlockedForever(t)

RECURSIVE Replay(_, _)
Replay(ops, e) ==
    IF ops = <<>> THEN e ELSE Replay(Tail(ops), ApplyCall(Head(ops), e))

NewEngine == Engine(NewPomodoro, NewCountdown, "off")
Copied(snap) == Engine(snap.pomodoro, snap.countdown, snap.focus_sound)

\* C1: a command, once invoked, applies its mutation, emits one snapshot and
\* returns: no command invocation has ended, or is stuck for good, without
\* its snapshot (taken after its mutation) having been emitted.
C1_CommandEmitsSnapshot ==
    \A t \in Callers :
        (IsCommand(call[t]) /\ pc[t] \in Stopped)
            => (delivered[t].taken /\ delivered[t].after_own)

\* C2: no thread performs a notification dispatch or a snapshot fan-out
\* (emit_snapshot) while it still holds the state lock.
C2_SideEffectsOutsideLock ==
    \A t \in Threads :
        pc[t] \in {"notify", "emit_snapshot", "deliver", "deadlocked"}
            => lock_owner # t

\* C3: under fair scheduling every started tick, command and snapshot read
\* eventually gets the state lock and completes.
C3_NoOperationBlocksForever ==
    \A t \in Threads :
        (pc[t] \notin {"idle", "sleep", "returned"})
            ~> (pc[t] \in {"sleep", "returned"})

\* C4: once the issued commands and ticks are over, the engine state is the
\* result of a serial order of all of them: every issued operation has been
\* applied, and the state is the replay of the applied operations in order.
C4_SerialEquivalence ==
    Final =>
        /\ \A t \in Threads : call[t].name \in {None, "timer_get_state"}
                                \/ call[t].applied
        /\ Engine(pomodoro, countdown, focus_sound) = Replay(log, NewEngine)

\* C5: every snapshot handed to an observer is a copy of the engine state as
\* it stood between two operations (never inside a tick or command), and a
\* snapshot emitted after an operation was copied after that operation's
\* mutation.
C5_SnapshotsConsistent ==
    \A t \in Threads :
        delivered[t].taken =>
            /\ ~delivered[t].torn
            /\ \E k \in 0 .. Len(log) :
                   Copied(delivered[t]) = Replay(SubSeq(log, 1, k), NewEngine)
            /\ call[t].name # "timer_get_state" => delivered[t].after_own

\* a tick has emitted its snapshot, and a concurrent timer_get_state has
\* returned one, while another caller's command was waiting or applied
C5_Witness ==
    /\ delivered[Clock].taken
    /\ delivered[Clock].after_own
    /\ \E t \in Callers :
           /\ call[t].name = "timer_get_state"
           /\ delivered[t].taken
    /\ \E t \in Callers : IsCommand(call[t])
    /\ Len(log) >= 1

C7_NotRunningAndAwaiting ==
    ~(pomodoro.running /\ pomodoro.awaiting_next_session)

\* C8: auto_start_remaining is nonzero only while awaiting_next_session is
\* true, and never exceeds the fixed delay of 5 seconds.
C8_AutoStartOnlyWhileAwaiting ==
    /\ pomodoro.auto_start_remaining # 0 => pomodoro.awaiting_next_session
    /\ pomodoro.auto_start_remaining <= 5

\* C9: total_seconds equals 60 times the duration the current settings give
\* for the current mode, whichever operation was applied last.
C9_TotalMatchesModeDuration ==
    pomodoro.total_seconds
        = 60 * duration_for_mode(pomodoro.mode, pomodoro.settings)

\* C10: the countdown's remaining_seconds is at most duration_minutes * 60.
C10_CountdownRemainingAtMostDuration ==
    countdown.remaining_seconds <= countdown.duration_minutes * 60

\* ------------------------------------------------------------- witnesses
\* the auto-start tick has fired: a session that completed was followed by
\* the delay, and the tick that ended the delay set the Pomodoro running
C7_Witness ==
    /\ last_op = "tick"
    /\ pomodoro.running
    /\ pomodoro.total_sessions_completed >= 1
    /\ pomodoro.remaining_seconds = pomodoro.total_seconds
    /\ nticks = 6
    /\ ncmds = 2

\* a pause issued during the auto-start delay: the session had completed
\* and the pause came before the delay ran out
C8_Witness ==
    /\ last_op = "pause_pomodoro"
    /\ pomodoro.total_sessions_completed = 1
    /\ nticks = 3
    /\ ncmds = 3
    /\ pomodoro.auto_start_remaining = 0

\* a completing tick has moved a Work session on to a one-minute break
C9_Witness ==
    /\ last_op = "tick"
    /\ pomodoro.awaiting_next_session
    /\ pomodoro.mode = "short_break"
    /\ pomodoro.settings.short_break_minutes = 1
    /\ pomodoro.total_seconds = 60

\* the 25-minute countdown was started, ticked down and then given a
\* shorter duration
C10_Witness ==
    /\ last_op = "set_countdown_duration"
    /\ nticks >= 2
    /\ countdown.duration_minutes = 1
    /\ countdown.remaining_seconds = 60

\* ------------------------------------------------- the completing tick
\* a step of the serial specifications that is a tick
TickStep == last_op' = "tick" /\ nticks' = nticks + 1

\* the transition table of a completed session, read off the state the
\* session completed in
NextMode(p) ==
    IF p.mode # "work" THEN "work"
    ELSE IF p.settings.auto_long_break
            /\ p.cycle_work_sessions + 1
                 >= p.settings.sessions_before_long_break
    THEN "long_break"
    ELSE "short_break"

\* C11: a tick that brings a running Pomodoro's remaining_seconds to 0
\* leaves, in its own post-state, running false, awaiting_next_session true,
\* auto_start_remaining 5, total_sessions_completed one higher, the mode
\* advanced per the transition table, and total_seconds and
\* remaining_seconds both the full duration of the new mode.
C11_CompletingTick ==
    [][ (TickStep /\ tick_completes(pomodoro)) =>
            /\ ~pomodoro'.running
            /\ pomodoro'.awaiting_next_session
            /\ pomodoro'.auto_start_remaining = 5
            /\ pomodoro'.total_sessions_completed
                 = pomodoro.total_sessions_completed + 1
            /\ pomodoro'.mode = NextMode(pomodoro)
            /\ pomodoro'.total_seconds
                 = 60 * duration_for_mode(pomodoro'.mode, pomodoro'.settings)
            /\ pomodoro'.remaining_seconds = pomodoro'.total_seconds
            /\ pomodoro'.settings = pomodoro.settings ]_vars

\* a tick has just completed a Work session and the one-minute short break
\* is loaded and waits for its auto-start
C11_Witness ==
    /\ last_op = "tick"
    /\ notify_event = "work"
    /\ pomodoro.total_sessions_completed = 1
    /\ pomodoro.mode = "short_break"
    /\ pomodoro.awaiting_next_session
    /\ pomodoro.auto_start_remaining = 5
    /\ pomodoro.remaining_seconds = 60
    /\ pomodoro.total_seconds = 60

\* C12: when a Work session completes, cycle_work_sessions and
\* total_work_sessions are both incremented first, and the next mode is
\* LongBreak exactly when auto_long_break is set and the incremented
\* cycle_work_sessions is at least sessions_before_long_break (0 and 1
\* included), ShortBreak otherwise.
C12_WorkCompletion ==
    [][ (TickStep /\ tick_completes(pomodoro) /\ pomodoro.mode = "work") =>
            /\ pomodoro'.cycle_work_sessions
                 = pomodoro.cycle_work_sessions + 1
            /\ pomodoro'.total_work_sessions
                 = pomodoro.total_work_sessions + 1
            /\ pomodoro'.mode \in {"long_break", "short_break"}
            /\ pomodoro'.mode = "long_break"
                 <=> /\ pomodoro.settings.auto_long_break
                     /\ pomodoro'.cycle_work_sessions
                          >= pomodoro.settings.sessions_before_long_break
       ]_vars

\* the first Work session has completed under sessions_before_long_break 1
\* and the long break follows: the count before the increment was below 1
C12_Witness ==
    /\ last_op = "tick"
    /\ notify_event = "work"
    /\ pomodoro.settings.sessions_before_long_break = 1
    /\ pomodoro.settings.auto_long_break
    /\ pomodoro.cycle_work_sessions = 1
    /\ pomodoro.total_work_sessions = 1
    /\ pomodoro.mode = "long_break"

\* C13: a ShortBreak that completes is followed by Work with both work
\* counters unchanged; a LongBreak that completes is followed by Work with
\* cycle_work_sessions reset to 0 and total_work_sessions unchanged.
C13_BreakCompletion ==
    [][ (TickStep /\ tick_completes(pomodoro) /\ pomodoro.mode # "work") =>
            /\ pomodoro'.mode = "work"
            /\ pomodoro'.total_work_sessions = pomodoro.total_work_sessions
            /\ pomodoro'.cycle_work_sessions
                 = IF pomodoro.mode = "long_break" THEN 0
                   ELSE pomodoro.cycle_work_sessions ]_vars

\* a long break that followed a counted Work session has completed
C13_Witness ==
    /\ last_op = "tick"
    /\ notify_event = "break"
    /\ pomodoro.mode = "work"
    /\ pomodoro.total_work_sessions = 1
    /\ pomodoro.cycle_work_sessions = 0
    /\ pomodoro.total_sessions_completed = 2

\* ------------------------------------------------------- the session cycle
\* C14: with sessions_before_long_break = 4 and auto_long_break set, an
\* engine started once and then driven by ticks alone goes to ShortBreak
\* after each of its first three Work completions and to LongBreak after
\* the fourth, and cycle_work_sessions is 0 once that LongBreak completes.
C14_FourthWorkSessionLongBreak ==
    (pomodoro.settings.sessions_before_long_break = 4
       /\ pomodoro.settings.auto_long_break) =>
        /\ (notify_event = "work" /\ pomodoro.total_work_sessions \in 1 .. 3)
             => (pomodoro.mode = "short_break"
                   /\ pomodoro.cycle_work_sessions
                        = pomodoro.total_work_sessions)
        /\ (notify_event = "work" /\ pomodoro.total_work_sessions = 4)
             => (pomodoro.mode = "long_break"
                   /\ pomodoro.total_sessions_completed = 7)
        /\ (pomodoro.total_sessions_completed = 7)
             => pomodoro.mode = "long_break"
        /\ (notify_event = "break" /\ pomodoro.total_sessions_completed = 8)
             => (pomodoro.mode = "work"
                   /\ pomodoro.cycle_work_sessions = 0
                   /\ pomodoro.total_work_sessions = 4)

\* the engine as constructed (25/5/15 minutes, 4 sessions per cycle) has
\* been started and ticked through four Work sessions, three short breaks
\* and the long break, which has just completed
C14_Witness ==
    /\ pomodoro.settings = DefaultSettings
    /\ last_op = "tick"
    /\ notify_event = "break"
    /\ pomodoro.total_sessions_completed = 8
    /\ pomodoro.total_work_sessions = 4
    /\ pomodoro.cycle_work_sessions = 0
    /\ nticks = 7835

C16_AutoStartOnFifthTick ==
    [][ TickStep =>
          /\ tick_completes(pomodoro) => pomodoro'.auto_start_remaining = 5
          /\ pomodoro.awaiting_next_session =>
               /\ pomodoro.auto_start_remaining \in 1 .. 5
               /\ ~pomodoro.running
               /\ pomodoro'.remaining_seconds = pomodoro.remaining_seconds
               /\ pomodoro'.remaining_seconds = pomodoro'.total_seconds
               /\ pomodoro'.mode = pomodoro.mode
               /\ IF pomodoro.auto_start_remaining >= 2
                  THEN /\ pomodoro'.awaiting_next_session
                       /\ ~pomodoro'.running
                       /\ pomodoro'.auto_start_remaining
                            = pomodoro.auto_start_remaining - 1
                  ELSE /\ ~pomodoro'.awaiting_next_session
                       /\ pomodoro'.running ]_vars

\* the first Work session of the engine as constructed completed on tick
\* 1500, and tick 1505 has started the five-minute short break
C16_Witness ==
    /\ pomodoro.settings = DefaultSettings
    /\ last_op = "tick"
    /\ nticks = 1505
    /\ pomodoro.mode = "short_break"
    /\ pomodoro.running
    /\ ~pomodoro.awaiting_next_session
    /\ pomodoro.remaining_seconds = 300
    /\ pomodoro.total_seconds = 300

\* the first n ticks after the start were all delivered to a running
\* Pomodoro: no session had completed before the n-th
AllTicksWhileRunning ==
    /\ last_op = "tick"
    /\ \/ pomodoro.total_sessions_completed = 0
       \/ pomodoro.total_sessions_completed = 1 /\ notify_event # None

C18_CountdownTick ==
    [][ TickStep =>
          IF countdown.running
          THEN /\ countdown'.remaining_seconds
                    = saturating_sub(countdown.remaining_seconds, 1)
               /\ countdown'.running = (countdown'.remaining_seconds # 0)
               /\ countdown'.duration_minutes = countdown.duration_minutes
          ELSE countdown' = countdown ]_vars

\* the 25-minute countdown was started and has been ticked seven times
C18_Witness ==
    /\ last_op = "tick"
    /\ nticks = 7
    /\ countdown.running
    /\ countdown.duration_minutes = 25
    /\ countdown.remaining_seconds = 1493

C20_TickEmitsSnapshot ==
    call[Clock].applied =>
        /\ pc[Clock] # "panicked"
        /\ ~BlockedForever(Clock)
        /\ pc[Clock] = "sleep"
             => (delivered[Clock].taken /\ delivered[Clock].after_own)

\* ---------------------------------------------- the Pomodoro commands
\* a step of the serial specifications that is the command op
CommandStep(op) == last_op' = op /\ ncmds' = ncmds + 1

Min(a, b) == IF a < b THEN a ELSE b

\* the three session counters of a Pomodoro state
Counters(p) ==
    <<p.cycle_work_sessions, p.total_work_sessions,
      p.total_sessions_completed>>

\* C21: update_settings replaces the whole settings value and sets
\* total_seconds to the new duration of the current mode; when the Pomodoro
\* is idle (not running, not awaiting) it also sets remaining_seconds to
\* that total, whatever progress a paused session had; mode, flags and
\* counters are unchanged.
C21_UpdateSettings ==
    [][ CommandStep("update_settings") =>
          /\ pomodoro'.settings \in SettingsInputs \cup WorkMinutesInputs
          /\ pomodoro'.total_seconds
               = 60 * duration_for_mode(pomodoro.mode, pomodoro'.settings)
          /\ (~pomodoro.running /\ ~pomodoro.awaiting_next_session)
               => pomodoro'.remaining_seconds = pomodoro'.total_seconds
          /\ pomodoro'.mode = pomodoro.mode
          /\ pomodoro'.running = pomodoro.running
          /\ pomodoro'.awaiting_next_session = pomodoro.awaiting_next_session
          /\ pomodoro'.auto_start_remaining = pomodoro.auto_start_remaining
          /\ Counters(pomodoro') = Counters(pomodoro) ]_vars

\* a Work session that was started, ticked twice and paused has had its
\* settings changed to a 30-minute session: it is back at the full 1800
C21_Witness ==
    /\ last_op = "update_settings"
    /\ ncmds = 3
    /\ nticks = 2
    /\ pomodoro.mode = "work"
    /\ ~pomodoro.running
    /\ ~pomodoro.awaiting_next_session
    /\ pomodoro.settings.work_minutes = 30
    /\ pomodoro.remaining_seconds = 1800
    /\ pomodoro.total_seconds = 1800

\* C22: update_settings issued while the Pomodoro is running or awaiting
\* sets remaining_seconds to the minimum of its previous value and the new
\* total: 1500 remaining and work_minutes 10 give total 600 and remaining
\* 600; 1500 remaining and work_minutes 30 give total 1800 and remaining
\* 1500.
C22_UpdateSettingsClamps ==
    [][ (CommandStep("update_settings")
           /\ (pomodoro.running \/ pomodoro.awaiting_next_session)) =>
          /\ pomodoro'.remaining_seconds
               = Min(pomodoro.remaining_seconds, pomodoro'.total_seconds)
          /\ (pomodoro.mode = "work" /\ pomodoro.remaining_seconds = 1500
                /\ pomodoro'.settings.work_minutes = 10)
               => (pomodoro'.total_seconds = 600
                     /\ pomodoro'.remaining_seconds = 600)
          /\ (pomodoro.mode = "work" /\ pomodoro.remaining_seconds = 1500
                /\ pomodoro'.settings.work_minutes = 30)
               => (pomodoro'.total_seconds = 1800
                     /\ pomodoro'.remaining_seconds = 1500) ]_vars

\* the running 25-minute Work session, at 1500 seconds, has had its
\* settings changed to a 10-minute session and is clamped to 600
C22_Witness ==
    /\ last_op = "update_settings"
    /\ ncmds = 2
    /\ nticks = 0
    /\ pomodoro.mode = "work"
    /\ pomodoro.running
    /\ pomodoro.settings.work_minutes = 10
    /\ pomodoro.total_seconds = 600
    /\ pomodoro.remaining_seconds = 600

\* C23: start_pomodoro, from any state, sets mode = Work, total_seconds =
\* work_minutes * 60, awaiting_next_session = false, auto_start_remaining =
\* 0 and running = true, and sets remaining_seconds to total_seconds if and
\* only if remaining_seconds was exactly 0 before the call.
C23_StartPomodoro ==
    [][ CommandStep("start_pomodoro") =>
          /\ pomodoro'.mode = "work"
          /\ pomodoro'.total_seconds = 60 * pomodoro.settings.work_minutes
          /\ ~pomodoro'.awaiting_next_session
          /\ pomodoro'.auto_start_remaining = 0
          /\ pomodoro'.running
          /\ pomodoro'.remaining_seconds
               = IF pomodoro.remaining_seconds = 0
                 THEN pomodoro'.total_seconds
                 ELSE pomodoro.remaining_seconds
          /\ pomodoro'.settings = pomodoro.settings
          /\ Counters(pomodoro') = Counters(pomodoro) ]_vars

\* a short break that had two of its 300 seconds ticked away was left by
\* start_pomodoro: the Work session of 1500 seconds starts with 298 left
C23_Witness ==
    /\ last_op = "start_pomodoro"
    /\ nticks = 2
    /\ pomodoro.mode = "work"
    /\ pomodoro.running
    /\ pomodoro.total_seconds = 1500
    /\ pomodoro.remaining_seconds = 298

\* C24: start_break, from any state (Work running, LongBreak, awaiting a
\* LongBreak included), sets mode = ShortBreak, total_seconds =
\* remaining_seconds = short_break_minutes * 60, clears
\* awaiting_next_session and auto_start_remaining and sets running; it
\* never yields LongBreak.
C24_StartBreak ==
    [][ CommandStep("start_break") =>
          /\ pomodoro'.mode = "short_break"
          /\ pomodoro'.total_seconds
               = 60 * pomodoro.settings.short_break_minutes
          /\ pomodoro'.remaining_seconds = pomodoro'.total_seconds
          /\ ~pomodoro'.awaiting_next_session
          /\ pomodoro'.auto_start_remaining = 0
          /\ pomodoro'.running
          /\ pomodoro'.settings = pomodoro.settings
          /\ Counters(pomodoro') = Counters(pomodoro) ]_vars

\* the first Work session completed with a threshold of 1, so a LongBreak
\* was loaded and awaited its auto-start, and start_break was called
C24_Witness ==
    /\ last_op = "start_break"
    /\ nticks = 1
    /\ pomodoro.settings.sessions_before_long_break = 1
    /\ pomodoro.settings.auto_long_break
    /\ pomodoro.cycle_work_sessions = 1
    /\ pomodoro.total_sessions_completed = 1
    /\ pomodoro.mode = "short_break"
    /\ pomodoro.running

\* C25: skip_break, from any state (a Work session included), sets mode =
\* Work, total_seconds = remaining_seconds = work_minutes * 60, clears
\* awaiting_next_session and auto_start_remaining and sets running.
C25_SkipBreak ==
    [][ CommandStep("skip_break") =>
          /\ pomodoro'.mode = "work"
          /\ pomodoro'.total_seconds = 60 * pomodoro.settings.work_minutes
          /\ pomodoro'.remaining_seconds = pomodoro'.total_seconds
          /\ ~pomodoro'.awaiting_next_session
          /\ pomodoro'.auto_start_remaining = 0
          /\ pomodoro'.running
          /\ pomodoro'.settings = pomodoro.settings
          /\ Counters(pomodoro') = Counters(pomodoro) ]_vars

\* skip_break was the only command after the start of the default engine's
\* Work session and two ticks: the session is back at 1500 seconds
C25_Witness ==
    /\ last_op = "skip_break"
    /\ ncmds = 2
    /\ nticks = 2
    /\ pomodoro.settings = DefaultSettings
    /\ pomodoro.mode = "work"
    /\ pomodoro.running
    /\ pomodoro.remaining_seconds = 1500

\* the commands that start a Pomodoro session
StartCommands == {"start_pomodoro", "start_break", "skip_break"}

\* C26: pause_pomodoro clears running, awaiting_next_session and
\* auto_start_remaining and nothing else; from then on, a pending
\* auto-start included, no tick changes the Pomodoro state, and it neither
\* runs nor awaits until start_pomodoro, start_break or skip_break is
\* called.
C26_PauseCancelsAutoStart ==
    [][ /\ CommandStep("pause_pomodoro") =>
              pomodoro' = [pomodoro EXCEPT !.running = FALSE,
                                           !.awaiting_next_session = FALSE,
                                           !.auto_start_remaining = 0]
        /\ (~pomodoro.running /\ ~pomodoro.awaiting_next_session) =>
              /\ TickStep => pomodoro' = pomodoro
              /\ (pomodoro'.running \/ pomodoro'.awaiting_next_session)
                   => last_op' \in StartCommands ]_vars

\* a session completed on the first tick, its auto-start was cancelled,
\* and six more ticks, one more than the delay, have left the Pomodoro idle
C26_Witness ==
    /\ last_op = "tick"
    /\ nticks = 7
    /\ ncmds = 3
    /\ pomodoro.total_sessions_completed = 1
    /\ ~pomodoro.running
    /\ ~pomodoro.awaiting_next_session
    /\ pomodoro.auto_start_remaining = 0

\* C27: reset_pomodoro clears running, awaiting_next_session and
\* auto_start_remaining, sets total_seconds and remaining_seconds to the
\* full duration of the current mode, and leaves the mode, the settings and
\* the three session counters unchanged.
C27_ResetPomodoro ==
    [][ CommandStep("reset_pomodoro") =>
          /\ ~pomodoro'.running
          /\ ~pomodoro'.awaiting_next_session
          /\ pomodoro'.auto_start_remaining = 0
          /\ pomodoro'.total_seconds
               = 60 * duration_for_mode(pomodoro.mode, pomodoro.settings)
          /\ pomodoro'.remaining_seconds = pomodoro'.total_seconds
          /\ pomodoro'.mode = pomodoro.mode
          /\ pomodoro'.settings = pomodoro.settings
          /\ Counters(pomodoro') = Counters(pomodoro) ]_vars

\* a short break of the default engine, two ticks in, has been reset
C27_Witness ==
    /\ last_op = "reset_pomodoro"
    /\ ncmds = 2
    /\ nticks = 2
    /\ pomodoro.settings = DefaultSettings
    /\ pomodoro.mode = "short_break"
    /\ ~pomodoro.running
    /\ pomodoro.remaining_seconds = 300
    /\ pomodoro.total_seconds = 300

\* ---------------------------------------------- the countdown commands
\* C28: start_countdown sets running and reloads remaining_seconds to
\* duration_minutes * 60 only if remaining_seconds was exactly 0: a
\* countdown paused mid-flight resumes from where it was paused, one that
\* ran to completion restarts from the full duration.
C28_StartCountdown ==
    [][ CommandStep("start_countdown") =>
          /\ countdown'.running
          /\ countdown'.duration_minutes = countdown.duration_minutes
          /\ countdown'.remaining_seconds
               = IF countdown.remaining_seconds = 0
                 THEN 60 * countdown.duration_minutes
                 ELSE countdown.remaining_seconds
          /\ UNCHANGED <<pomodoro, focus_sound>> ]_vars

\* a one-minute countdown was set, started and ticked 60 times to 0, and
\* start_countdown has restarted it at 60 seconds
C28_Witness ==
    /\ last_op = "start_countdown"
    /\ ncmds = 3
    /\ nticks = 60
    /\ countdown.duration_minutes = 1
    /\ countdown.running
    /\ countdown.remaining_seconds = 60

\* C29: pause_countdown sets the countdown's running flag to false and
\* leaves remaining_seconds, duration_minutes and the rest of the state
\* unchanged.
C29_PauseCountdown ==
    [][ CommandStep("pause_countdown") =>
          /\ ~countdown'.running
          /\ countdown'.remaining_seconds = countdown.remaining_seconds
          /\ countdown'.duration_minutes = countdown.duration_minutes
          /\ UNCHANGED <<pomodoro, focus_sound>> ]_vars

\* the 25-minute countdown was started, ticked three times and paused
C29_Witness ==
    /\ last_op = "pause_countdown"
    /\ nticks = 3
    /\ ~countdown.running
    /\ countdown.duration_minutes = 25
    /\ countdown.remaining_seconds = 1497

\* the countdown stopped and rewound to its full duration
Rewound(c) ==
    [c EXCEPT !.running = FALSE,
              !.remaining_seconds = 60 * c.duration_minutes]

\* C30: from any state, reset_countdown, pause_countdown, reset_countdown
\* with nothing in between gives the state the first reset_countdown gave
\* (running false, remaining_seconds = duration_minutes * 60): the
\* composition of the three equals the first; the pause after a reset and
\* the reset after that pause are steps that change nothing.
C30_ResetPauseReset ==
    /\ [](LET first == reset_countdown_mut(countdown)
          IN  /\ first = Rewound(countdown)
              /\ reset_countdown_mut(pause_countdown_mut(first)) = first)
    /\ [][ /\ CommandStep("reset_countdown") =>
                 /\ countdown' = Rewound(countdown)
                 /\ UNCHANGED <<pomodoro, focus_sound>>
           /\ (last_op = "reset_countdown" /\ CommandStep("pause_countdown"))
                 => UNCHANGED <<pomodoro, countdown, focus_sound>>
           /\ (last_op = "pause_countdown" /\ countdown = Rewound(countdown)
                 /\ CommandStep("reset_countdown"))
                 => UNCHANGED <<pomodoro, countdown, focus_sound>> ]_vars

\* three countdown commands were applied to the engine as constructed with
\* no tick in between, the last a reset_countdown of the stopped countdown
C30_Witness ==
    /\ last_op = "reset_countdown"
    /\ ncmds = 3
    /\ nticks = 0
    /\ countdown = Rewound(NewCountdown)

\* C31: set_countdown_duration(minutes) sets duration_minutes = minutes,
\* remaining_seconds = minutes * 60 and running = false, whatever the
\* countdown was before; an active countdown is stopped by it.
C31_SetCountdownDuration ==
    [][ CommandStep("set_countdown_duration") =>
          /\ countdown'.duration_minutes \in Minutes
          /\ countdown'.remaining_seconds = 60 * countdown'.duration_minutes
          /\ ~countdown'.running
          /\ UNCHANGED <<pomodoro, focus_sound>> ]_vars

\* the 25-minute countdown was started and ticked twice, and the duration
\* was then set to one minute: it is stopped at 60 seconds
C31_Witness ==
    /\ last_op = "set_countdown_duration"
    /\ ncmds = 2
    /\ nticks = 2
    /\ countdown.duration_minutes = 1
    /\ countdown.remaining_seconds = 60
    /\ ~countdown.running

\* ------------------------------------------------- what touches what
\* the operations other than set_focus_sound, with their payloads
TimerCalls ==
    {c \in CallInputs : c.name \notin {"timer_get_state", "set_focus_sound"}}
        \cup {Call("tick")}

\* the operations that take no payload
PlainOps ==
    {"tick", "start_pomodoro", "start_break", "skip_break", "pause_pomodoro",
     "reset_pomodoro", "start_countdown", "pause_countdown",
     "reset_countdown"}

\* C32: set_focus_sound(sound) changes only focus_sound, no field of the
\* Pomodoro or of the countdown; and what a tick or any other command does
\* to the two timers is the same under every value of focus_sound, which
\* they leave as it is.
C32_FocusSoundIsInert ==
    /\ [](\A c \in TimerCalls : \A f \in FocusSound :
            LET now == ApplyCall(c, Engine(pomodoro, countdown, focus_sound))
                other == ApplyCall(c, Engine(pomodoro, countdown, f))
            IN  /\ other.pomodoro = now.pomodoro
                /\ other.countdown = now.countdown
                /\ other.focus_sound = f)
    /\ [][ /\ CommandStep("set_focus_sound")
                => (focus_sound' \in FocusSound
                      /\ UNCHANGED <<pomodoro, countdown>>)
           /\ last_op' # "set_focus_sound" => focus_sound' = focus_sound
           /\ last_op' \in PlainOps =>
                \A f \in FocusSound :
                    LET other == ApplyCall(Call(last_op'),
                                           Engine(pomodoro, countdown, f))
                    IN  /\ pomodoro' = other.pomodoro
                        /\ countdown' = other.countdown ]_vars

\* the focus sound was switched to rain while both timers were running and
\* two ticks in; both are as the ticks left them
C32_Witness ==
    /\ last_op = "set_focus_sound"
    /\ focus_sound = "rain"
    /\ nticks = 2
    /\ ncmds = 3
    /\ pomodoro.running
    /\ pomodoro.remaining_seconds = 1498
    /\ countdown.running
    /\ countdown.remaining_seconds = 1498

PomodoroCommands ==
    {"update_settings", "start_pomodoro", "start_break", "skip_break",
     "pause_pomodoro", "reset_pomodoro"}

CountdownCommands ==
    {"start_countdown", "pause_countdown", "reset_countdown",
     "set_countdown_duration"}

\* other states of the countdown and of the Pomodoro a tick may find
OtherCountdowns ==
    { NewCountdown,
      [NewCountdown EXCEPT !.running = TRUE],
      [duration_minutes |-> 0, remaining_seconds |-> 0, running |-> TRUE] }

OtherPomodoros ==
    { NewPomodoro,
      [NewPomodoro EXCEPT !.running = TRUE],
      [NewPomodoro EXCEPT !.running = TRUE, !.remaining_seconds = 1],
      [NewPomodoro EXCEPT !.awaiting_next_session = TRUE,
                          !.auto_start_remaining = 1] }

\* C33: every Pomodoro command leaves the countdown and focus_sound
\* unchanged, every countdown command leaves the Pomodoro and focus_sound
\* unchanged, and what a tick does to one timer is what it would do
\* whatever the state of the other.
C33_TimersIndependent ==
    [][ /\ (last_op' \in PomodoroCommands /\ ncmds' = ncmds + 1)
              => UNCHANGED <<countdown, focus_sound>>
        /\ (last_op' \in CountdownCommands /\ ncmds' = ncmds + 1)
              => UNCHANGED <<pomodoro, focus_sound>>
        /\ TickStep =>
              /\ \A c \in OtherCountdowns :
                    pomodoro' = ApplyCall(Call("tick"),
                                          Engine(pomodoro, c, focus_sound)
                                         ).pomodoro
              /\ \A q \in OtherPomodoros :
                    countdown' = ApplyCall(Call("tick"),
                                           Engine(q, countdown, focus_sound)
                                          ).countdown ]_vars

\* the countdown was started one tick after the Pomodoro, and a tick has
\* advanced both
C33_Witness ==
    /\ last_op = "tick"
    /\ nticks = 2
    /\ ncmds = 2
    /\ pomodoro.running
    /\ pomodoro.remaining_seconds = 1498
    /\ countdown.running
    /\ countdown.remaining_seconds = 1499

C35_SecondsAreTrueProduct ==
    /\ ~Faulted
    /\ last_op = "set_countdown_duration" =>
          /\ countdown.remaining_seconds % 60 = 0
          /\ countdown.remaining_seconds \div 60 = countdown.duration_minutes
    /\ last_op = "update_settings" =>
          /\ pomodoro.total_seconds % 60 = 0
          /\ pomodoro.total_seconds \div 60
               = duration_for_mode(pomodoro.mode, pomodoro.settings)

C37_CountersMonotoneAndOrdered ==
    /\ [](/\ pomodoro.cycle_work_sessions <= pomodoro.total_work_sessions
          /\ pomodoro.total_work_sessions
               <= pomodoro.total_sessions_completed)
    /\ [][ /\ pomodoro'.total_sessions_completed
               \in {pomodoro.total_sessions_completed,
                    pomodoro.total_sessions_completed + 1}
           /\ pomodoro'.total_work_sessions
               \in {pomodoro.total_work_sessions,
                    pomodoro.total_work_sessions + 1}
           /\ pomodoro'.total_work_sessions
                 - pomodoro.total_work_sessions
               <= pomodoro'.total_sessions_completed
                    - pomodoro.total_sessions_completed
           /\ pomodoro'.total_sessions_completed
                 # pomodoro.total_sessions_completed => TickStep ]_vars

\* a Work session and the long break after it have both completed: the
\* cycle is back at 0 with one work session among two completed sessions
C37_Witness ==
    /\ last_op = "tick"
    /\ notify_event = "break"
    /\ pomodoro.mode = "work"
    /\ Counters(pomodoro) = <<0, 1, 2>>

\* C38: only a tick that completes a session changes a session counter or
\* raises a completion event; a command changes neither, whatever session
\* it ends, and skip_break leaving a LongBreak keeps cycle_work_sessions.
C38_OnlyCompletingTickCounts ==
    [][ /\ Counters(pomodoro') # Counters(pomodoro)
            => TickStep /\ tick_completes(pomodoro)
        /\ notify_event' # None => TickStep /\ tick_completes(pomodoro)
        /\ (TickStep /\ tick_completes(pomodoro))
            => /\ notify_event' # None
               /\ pomodoro'.total_sessions_completed
                    = pomodoro.total_sessions_completed + 1
        /\ (CommandStep("skip_break") /\ pomodoro.mode = "long_break")
            => /\ pomodoro'.mode = "work"
               /\ pomodoro'.cycle_work_sessions
                    = pomodoro.cycle_work_sessions ]_vars

\* with a long break due after one work session, the Work session has
\* completed and skip_break has left the long break that followed: the
\* cycle count is still 1 and only the one completed session is counted
C38_Witness ==
    /\ last_op = "skip_break"
    /\ nticks = 1
    /\ ncmds = 3
    /\ pomodoro.settings = Settings(0, 0, 0, 1, TRUE, TRUE)
    /\ pomodoro.mode = "work"
    /\ pomodoro.running
    /\ Counters(pomodoro) = <<1, 1, 1>>

\* C40: start_pomodoro issued while remaining_seconds is nonzero keeps
\* remaining_seconds, whatever the mode before: after pause_pomodoro it
\* resumes the Work session at the second it was paused, and during a
\* break, or while awaiting or paused before one, it begins a Work session
\* with the break's remaining time.
C40_StartKeepsNonzeroRemaining ==
    [][ (CommandStep("start_pomodoro") /\ pomodoro.remaining_seconds # 0)
          => /\ pomodoro'.remaining_seconds = pomodoro.remaining_seconds
             /\ pomodoro'.mode = "work"
             /\ pomodoro'.running
             /\ ~pomodoro'.awaiting_next_session
             /\ pomodoro'.total_seconds
                  = 60 * pomodoro.settings.work_minutes ]_vars

\* a Work session of 0 minutes completed at the first tick and the engine
\* was awaiting a short break of one minute when start_pomodoro was
\* issued: the Work session of 0 seconds runs with the break's 60 seconds
C40_Witness ==
    /\ last_op = "start_pomodoro"
    /\ nticks = 1
    /\ pomodoro.total_sessions_completed = 1
    /\ pomodoro.mode = "work"
    /\ pomodoro.running
    /\ pomodoro.total_seconds = 0
    /\ pomodoro.remaining_seconds = 60

\* ------------------------------------------- the clock after a start
\* the number of commands the caller threads have issued so far
CommandsIssued == Cardinality({t \in Callers : IsCommand(call[t])})

\* C39: once the Pomodoro is running and no further command is issued, a
\* fair clock keeps advancing it towards the completion of its session: a
\* session started by start_pomodoro or skip_break (1500 seconds) or by
\* start_break (300 seconds) does not stay at its full remaining time.
C39_RunningSessionAdvances ==
    \A r \in {300, 1500} :
        (/\ pomodoro.running
         /\ pomodoro.remaining_seconds = r
         /\ nticks < MaxClockTicks)
            ~> (\/ pomodoro.remaining_seconds < r
                \/ pomodoro.awaiting_next_session
                \/ CommandsIssued >= 2)

====
